---- MODULE Spec2Model ----
(***************************************************************************)
(* StepsHandler of gserver/src/steps.handler.ts: the registry of step      *)
(* definitions, the usage counts, and the validate / completion queries.   *)
(* Strings are sequences of one-character strings; a regular expression    *)
(* is kept as its source text and compiled where the code compiles it.     *)
(***************************************************************************)
EXTENDS Integers, Sequences, FiniteSets, TLC

(* ------------------------------------------------------------------ *)
(* Strings                                                            *)
(* ------------------------------------------------------------------ *)

\* A string literal as a sequence of characters.
Chars(s) == [i \in 1..Len(s) |-> SubSeq(s, i, i)]

\* The printable ASCII characters in code-unit order: 32..95 and 97..126 (the
\* grave accent, 96, is left out).
AsciiLow ==
  Chars(" !\"#$%&'()*+,-./0123456789:;<=>?@ABCDEFGHIJKLMNOPQRSTUVWXYZ[\\]^_")
AsciiHigh == Chars("abcdefghijklmnopqrstuvwxyz{|}~")

Digit == {AsciiLow[k] : k \in 17..26}
Upper == {AsciiLow[k] : k \in 34..59}
Lower == {AsciiHigh[k] : k \in 1..26}
\* \w, \s and their complements, over the characters of the model.
WordChar == Digit \cup Upper \cup Lower \cup {"_"}
SpaceChar == {" ", "\t"}
AllChars ==
  {AsciiLow[k] : k \in 1..Len(AsciiLow)} \cup {AsciiHigh[k] : k \in 1..Len(AsciiHigh)}
    \cup {"\t"}

\* The code unit of a character (tab is 9).
Code(c) ==
  IF c = "\t" THEN 9
  ELSE IF \E k \in 1..Len(AsciiLow) : AsciiLow[k] = c
       THEN 31 + (CHOOSE k \in 1..Len(AsciiLow) : AsciiLow[k] = c)
       ELSE 96 + (CHOOSE k \in 1..Len(AsciiHigh) : AsciiHigh[k] = c)

\* Does s hold pat at position i (1-based)?
At(s, i, pat) ==
  /\ i >= 1
  /\ i + Len(pat) - 1 <= Len(s)
  /\ \A k \in 1..Len(pat) : s[i + k - 1] = pat[k]

\* The first position >= i where s holds pat, 0 when there is none.
IndexFrom(s, i, pat) ==
  IF \E p \in i..Len(s) : At(s, p, pat)
  THEN CHOOSE p \in i..Len(s) : At(s, p, pat) /\ \A q \in i..(p - 1) : ~At(s, q, pat)
  ELSE 0

\* s from position i to its end.
From(s, i) == SubSeq(s, i, Len(s))

RECURSIVE Flatten(_)
\* The concatenation of a sequence of sequences.
Flatten(ss) == IF ss = <<>> THEN <<>> ELSE Head(ss) \o Flatten(Tail(ss))

RECURSIVE Dedup(_, _)
\* s without the later occurrences of its elements (seen: those met so far).
Dedup(s, seen) ==
  IF s = <<>> THEN <<>>
  ELSE IF Head(s) \in seen THEN Dedup(Tail(s), seen)
       ELSE <<Head(s)>> \o Dedup(Tail(s), seen \cup {Head(s)})

(* ------------------------------------------------------------------ *)
(* new RegExp(source): the pattern grammar and the backtracking match *)
(* ------------------------------------------------------------------ *)

Fail == [ok |-> FALSE, ast |-> <<>>, next |-> 0]

\* The atom a backslash escape stands for.
EscapeAtom(c) ==
  CASE c = "d" -> [k |-> "class", neg |-> FALSE, set |-> Digit]
    [] c = "D" -> [k |-> "class", neg |-> TRUE, set |-> Digit]
    [] c = "w" -> [k |-> "class", neg |-> FALSE, set |-> WordChar]
    [] c = "W" -> [k |-> "class", neg |-> TRUE, set |-> WordChar]
    [] c = "s" -> [k |-> "class", neg |-> FALSE, set |-> SpaceChar]
    [] c = "S" -> [k |-> "class", neg |-> TRUE, set |-> SpaceChar]
    [] c = "t" -> [k |-> "char", c |-> "\t"]
    [] c = "b" -> [k |-> "wb", neg |-> FALSE]
    [] c = "B" -> [k |-> "wb", neg |-> TRUE]
    [] OTHER -> [k |-> "char", c |-> c]

\* The characters a backslash escape stands for inside a class.
ClassMembers(a) ==
  IF a.k = "char" THEN {a.c}
  ELSE IF a.k = "wb" THEN {}
  ELSE IF a.neg THEN AllChars \ a.set ELSE a.set

\* The characters from lo to hi.
ClassRange(lo, hi) == {x \in AllChars : lo <= Code(x) /\ Code(x) <= hi}

RECURSIVE ParseClassItems(_, _, _)
\* The members of a character class from position i up to its "]".
ParseClassItems(re, i, acc) ==
  IF i > Len(re) THEN Fail
  ELSE IF re[i] = "]" THEN [ok |-> TRUE, ast |-> acc, next |-> i + 1]
  ELSE IF re[i] = "\\" THEN
    IF i = Len(re) THEN Fail
    ELSE ParseClassItems(re, i + 2, acc \cup ClassMembers(EscapeAtom(re[i + 1])))
  ELSE IF i + 2 <= Len(re) /\ re[i + 1] = "-" /\ re[i + 2] \notin {"]", "\\"} THEN
    IF Code(re[i]) > Code(re[i + 2]) THEN Fail
    ELSE ParseClassItems(re, i + 3, acc \cup ClassRange(Code(re[i]), Code(re[i + 2])))
  ELSE ParseClassItems(re, i + 1, acc \cup {re[i]})

\* The class atom of the members r found.
ClassAtom(neg, r) ==
  IF r.ok THEN [ok |-> TRUE, ast |-> [k |-> "class", neg |-> neg, set |-> r.ast],
                next |-> r.next]
  ELSE Fail

\* The group atom of the disjunction r found, which its ")" must follow.
GroupAtom(re, r) ==
  IF ~r.ok \/ r.next > Len(re) THEN Fail
  ELSE [ok |-> TRUE, ast |-> r.ast, next |-> r.next + 1]

\* The atom a with the quantifier that follows it.
Quantified(re, a) ==
  IF ~a.ok THEN Fail
  ELSE LET q == IF a.next <= Len(re) /\ re[a.next] \in {"*", "+", "?"}
                THEN re[a.next] ELSE ""
           lazy == q # "" /\ a.next + 1 <= Len(re) /\ re[a.next + 1] = "?"
       IN IF q = "" THEN a
          ELSE IF a.ast.k \in {"bol", "eol", "wb"} THEN Fail
          ELSE [ok |-> TRUE,
                ast |-> [k |-> "rep", of |-> a.ast,
                         min |-> IF q = "+" THEN 1 ELSE 0,
                         max |-> IF q = "?" THEN 1 ELSE -1,
                         greedy |-> ~lazy],
                next |-> a.next + (IF lazy THEN 2 ELSE 1)]

RECURSIVE ParseAlts(_, _, _)
RECURSIVE AltsAfter(_, _, _)
RECURSIVE ParseTerms(_, _, _)
RECURSIVE TermsAfter(_, _, _)
RECURSIVE ParseAtom(_, _)

\* One atom at position i: a SyntaxError is Fail.
ParseAtom(re, i) ==
  CASE re[i] = "\\" ->
         IF i = Len(re) THEN Fail
         ELSE [ok |-> TRUE, ast |-> EscapeAtom(re[i + 1]), next |-> i + 2]
    [] re[i] = "[" ->
         IF i < Len(re) /\ re[i + 1] = "^"
         THEN ClassAtom(TRUE, ParseClassItems(re, i + 2, {}))
         ELSE ClassAtom(FALSE, ParseClassItems(re, i + 1, {}))
    [] re[i] = "(" ->
         IF i + 1 <= Len(re) /\ re[i + 1] = "?"
         THEN IF i + 2 <= Len(re) /\ re[i + 2] = ":"
              THEN GroupAtom(re, ParseAlts(re, i + 3, <<>>))
              ELSE Fail
         ELSE GroupAtom(re, ParseAlts(re, i + 1, <<>>))
    [] re[i] \in {"*", "+", "?", ")"} -> Fail
    [] re[i] = "^" -> [ok |-> TRUE, ast |-> [k |-> "bol"], next |-> i + 1]
    [] re[i] = "$" -> [ok |-> TRUE, ast |-> [k |-> "eol"], next |-> i + 1]
    [] re[i] = "." -> [ok |-> TRUE, ast |-> [k |-> "any"], next |-> i + 1]
    [] OTHER -> [ok |-> TRUE, ast |-> [k |-> "char", c |-> re[i]], next |-> i + 1]

\* The terms (atom, quantifier) of one alternative, up to "|", ")" or the end.
ParseTerms(re, i, acc) ==
  IF i > Len(re) \/ re[i] \in {"|", ")"}
  THEN [ok |-> TRUE, ast |-> [k |-> "cat", terms |-> acc], next |-> i]
  ELSE TermsAfter(re, acc, Quantified(re, ParseAtom(re, i)))

\* The terms that follow the term a.
TermsAfter(re, acc, a) ==
  IF ~a.ok THEN Fail ELSE ParseTerms(re, a.next, Append(acc, a.ast))

\* The alternatives of a disjunction.
ParseAlts(re, i, acc) == AltsAfter(re, acc, ParseTerms(re, i, <<>>))

\* The alternatives that follow the alternative a.
AltsAfter(re, acc, a) ==
  IF ~a.ok THEN Fail
  ELSE IF a.next <= Len(re) /\ re[a.next] = "|"
       THEN ParseAlts(re, a.next + 1, Append(acc, a.ast))
       ELSE [ok |-> TRUE, ast |-> [k |-> "alt", alts |-> Append(acc, a.ast)],
             next |-> a.next]

\* The whole pattern must have been read.
Whole(re, r) ==
  IF r.ok /\ r.next = Len(re) + 1 THEN [ok |-> TRUE, ast |-> r.ast]
  ELSE [ok |-> FALSE, ast |-> <<>>]

\* new RegExp(re): ok is FALSE where the constructor throws a SyntaxError.
Compile(re) == Whole(re, ParseAlts(re, 1, <<>>))

RECURSIVE Ends(_, _, _)
RECURSIVE EndsAll(_, _, _)
RECURSIVE CatEnds(_, _, _, _)
RECURSIVE AltEnds(_, _, _, _)
RECURSIVE RepEnds(_, _, _, _, _)

\* The positions where a match of ast that starts at j (characters consumed)
\* may end, in the order backtracking tries them.
Ends(ast, t, j) ==
  CASE ast.k = "char" -> IF j < Len(t) /\ t[j + 1] = ast.c THEN <<j + 1>> ELSE <<>>
    [] ast.k = "any" -> IF j < Len(t) THEN <<j + 1>> ELSE <<>>
    [] ast.k = "class" ->
         IF j < Len(t) /\ ((t[j + 1] \in ast.set) # ast.neg) THEN <<j + 1>> ELSE <<>>
    [] ast.k = "bol" -> IF j = 0 THEN <<j>> ELSE <<>>
    [] ast.k = "eol" -> IF j = Len(t) THEN <<j>> ELSE <<>>
    [] ast.k = "wb" ->
         IF ((j > 0 /\ t[j] \in WordChar) # (j < Len(t) /\ t[j + 1] \in WordChar)) # ast.neg
         THEN <<j>> ELSE <<>>
    [] ast.k = "cat" -> CatEnds(ast.terms, 1, t, <<j>>)
    [] ast.k = "alt" -> Dedup(AltEnds(ast.alts, 1, t, j), {})
    [] ast.k = "rep" -> Dedup(RepEnds(ast.of, ast.min, ast.max, ast.greedy, [t |-> t, j |-> j]), {})

\* Ends from each of the start positions js, in order.
EndsAll(ast, t, js) ==
  IF js = <<>> THEN <<>> ELSE Ends(ast, t, Head(js)) \o EndsAll(ast, t, Tail(js))

CatEnds(terms, n, t, js) ==
  IF n > Len(terms) THEN js
  ELSE CatEnds(terms, n + 1, t, Dedup(EndsAll(terms[n], t, js), {}))

AltEnds(alts, n, t, j) ==
  IF n > Len(alts) THEN <<>> ELSE Ends(alts[n], t, j) \o AltEnds(alts, n + 1, t, j)

\* A quantified atom: min iterations, then up to max more (-1: no limit), an
\* iteration that consumes nothing being refused.
RepEnds(a, min, max, greedy, at) ==
  LET t == at.t
      j == at.j
      step == Ends(a, t, j)
  IN IF min > 0
     THEN Flatten([n \in 1..Len(step) |->
            RepEnds(a, min - 1, IF max < 0 THEN max ELSE max - 1, greedy,
                    [t |-> t, j |-> step[n]])])
     ELSE LET more == IF max = 0 THEN <<>>
                      ELSE Flatten([n \in 1..Len(step) |->
                             IF step[n] = j THEN <<>>
                             ELSE RepEnds(a, 0, IF max < 0 THEN max ELSE max - 1, greedy,
                                          [t |-> t, j |-> step[n]])])
          IN IF greedy THEN more \o <<j>> ELSE <<j>> \o more

\* The leftmost match of a compiled pattern in t: [found, start, end], start
\* and end counting the characters before the match and through it.
RECURSIVE ExecFrom(_, _, _)
ExecFrom(ast, t, s) ==
  LET e == Ends(ast, t, s) IN
  IF e # <<>> THEN [found |-> TRUE, start |-> s, end |-> Head(e)]
  ELSE IF s >= Len(t) THEN [found |-> FALSE, start |-> 0, end |-> 0]
  ELSE ExecFrom(ast, t, s + 1)

Exec(ast, t) == ExecFrom(ast, t, 0)

\* reg.test(t)
RegTest(ast, t) == Exec(ast, t).found

(* ------------------------------------------------------------------ *)
(* util: the helpers steps.handler.ts imports                         *)
(* ------------------------------------------------------------------ *)

\* The characters escapeRegExp puts a backslash before.  The pipeline's own
\* patterns (".*", "-?\d+", "[^\"]+") and the "|" of the keyword list pass
\* through it and stay live, so none of their characters is in the set.
EscapedChars == {"/"}

RECURSIVE escapeRegExp(_)
escapeRegExp(str) ==
  IF str = <<>> THEN <<>>
  ELSE (IF Head(str) \in EscapedChars THEN <<"\\", Head(str)>> ELSE <<Head(str)>>)
         \o escapeRegExp(Tail(str))

\* 'step' + getMD5Id(text): a content hash of the text, taken as collision
\* free, so the text itself stands for its digest.
StepId(text) == Chars("step") \o text

RECURSIVE Decimal(_, _)
\* n in decimal, zero-padded to width digits.
Decimal(n, width) ==
  IF width = 0 THEN <<>> ELSE Decimal(n \div 10, width - 1) \o <<AsciiLow[17 + (n % 10)]>>

RECURSIVE Power10(_)
Power10(k) == IF k = 0 THEN 1 ELSE 10 * Power10(k - 1)

\* getSortPrefix(num, count): a text of fixed width count that is the smaller
\* the larger num is: the padded decimal of the complement of num.
getSortPrefix(num, count) == Decimal(Power10(count) - 1 - num, count)

(* ------------------------------------------------------------------ *)
(* The fixed patterns of the handler                                  *)
(* ------------------------------------------------------------------ *)

RECURSIVE ReplaceAll(_, _, _)
\* str.replace(/pat/g, rep) for a pattern that is a literal text.
ReplaceAll(s, pat, rep) ==
  IF s = <<>> THEN <<>>
  ELSE IF At(s, 1, pat) THEN rep \o ReplaceAll(From(s, Len(pat) + 1), pat, rep)
       ELSE <<Head(s)>> \o ReplaceAll(Tail(s), pat, rep)

\* s without its leading / trailing white space.
RECURSIVE TrimLeft(_)
TrimLeft(s) == IF s # <<>> /\ Head(s) \in SpaceChar THEN TrimLeft(Tail(s)) ELSE s
RECURSIVE TrimRight(_)
TrimRight(s) ==
  IF s # <<>> /\ s[Len(s)] \in SpaceChar THEN TrimRight(SubSeq(s, 1, Len(s) - 1)) ELSE s

ToLower(c) ==
  IF c \in Upper THEN AsciiHigh[(CHOOSE k \in 34..59 : AsciiLow[k] = c) - 33] ELSE c

\* Does s hold the word w at position i, letter case ignored or not?
WordAt(s, i, w, ignoreCase) ==
  /\ i + Len(w) - 1 <= Len(s)
  /\ \A k \in 1..Len(w) :
       IF ignoreCase THEN ToLower(s[i + k - 1]) = ToLower(w[k]) ELSE s[i + k - 1] = w[k]

\* Given|When|Then|But|And
GherkinWords == <<"Given", "When", "Then", "But", "And">>

\* The keyword s holds at position i ("" when none).
KeywordAt(s, i, ignoreCase) ==
  IF \E w \in 1..5 : WordAt(s, i, Chars(GherkinWords[w]), ignoreCase)
  THEN GherkinWords[CHOOSE w \in 1..5 : WordAt(s, i, Chars(GherkinWords[w]), ignoreCase)]
  ELSE ""

\* line.match(getGherkinRegEx()), ^(\s*)(Given|When|Then|But|And)(\s+)(.*) :
\* ok, match[1] (before), match[2] (keyword), match[4] (text).
GherkinMatch(line) ==
  LET rest == TrimLeft(line)
      before == SubSeq(line, 1, Len(line) - Len(rest))
      kw == KeywordAt(rest, 1, FALSE)
      after == From(rest, Len(kw) + 1)
  IN IF kw # "" /\ after # <<>> /\ Head(after) \in SpaceChar
     THEN [ok |-> TRUE, before |-> before, keyword |-> kw, text |-> TrimLeft(after)]
     ELSE [ok |-> FALSE, before |-> <<>>, keyword |-> "", text |-> <<>>]

StepStart == {"/", "'", "\""}

\* With the keyword right after the first p characters: the position of the
\* opening delimiter (only non-word characters lie between), 0 when none.
StepOpen(line, p) ==
  LET kw == KeywordAt(line, p + 1, TRUE)
      q == p + Len(kw) + 1
  IN IF kw = "" THEN 0
     ELSE IF \E d \in q..Len(line) :
               /\ line[d] \in StepStart
               /\ \A k \in q..(d - 1) : line[k] \notin StepStart \cup WordChar
          THEN CHOOSE d \in q..Len(line) :
                 /\ line[d] \in StepStart
                 /\ \A k \in q..(d - 1) : line[k] \notin StepStart \cup WordChar
          ELSE 0

\* The position of the closing delimiter: the last one of the kind that opened,
\* at least one character after it; 0 when none.
StepClose(line, d) ==
  IF d = 0 \/ ~\E e \in (d + 2)..Len(line) : line[e] = line[d] THEN 0
  ELSE CHOOSE e \in (d + 2)..Len(line) :
         line[e] = line[d] /\ \A f \in (e + 1)..Len(line) : line[f] # line[d]

\* Can the match start its keyword after the first p characters?
StepMatchAt(line, p) ==
  /\ p = 0 \/ (line[p] \notin WordChar /\ \A k \in 1..(p - 1) : line[k] \notin StepStart)
  /\ StepClose(line, StepOpen(line, p)) # 0

RECURSIVE StepMatchFrom(_, _)
\* Where the keyword of the match starts: the prefix is taken lazily from r
\* characters on, the empty prefix being the last alternative; -1 for no match.
StepMatchFrom(line, r) ==
  IF r > Len(line) THEN (IF StepMatchAt(line, 0) THEN 0 ELSE -1)
  ELSE IF StepMatchAt(line, r) THEN r
  ELSE StepMatchFrom(line, r + 1)

\* The match whose keyword starts after the first p characters.
StepMatchOf(line, p) ==
  IF p < 0 THEN [ok |-> FALSE, beforeGherkin |-> <<>>, stepPart |-> <<>>]
  ELSE [ok |-> TRUE, beforeGherkin |-> SubSeq(line, 1, p),
        stepPart |-> SubSeq(line, StepOpen(line, p) + 1,
                            StepClose(line, StepOpen(line, p)) - 1)]

\* line.match(getStepRegExp()): ok, match[1] (beforeGherkin), match[4] (stepPart).
getMatch(line) == StepMatchOf(line, StepMatchFrom(line, 1))

(* ------------------------------------------------------------------ *)
(* Pattern Compiler                                                   *)
(* ------------------------------------------------------------------ *)

RECURSIVE ReplaceInterpolation(_)
\* step.replace(/#{(.*?)}/g, '.*')
ReplaceInterpolation(s) ==
  IF s = <<>> THEN <<>>
  ELSE LET close == IF At(s, 1, <<"#", "{">>) THEN IndexFrom(s, 3, <<"}">>) ELSE 0 IN
    IF close > 0 THEN <<".", "*">> \o ReplaceInterpolation(From(s, close + 1))
    ELSE <<Head(s)>> \o ReplaceInterpolation(Tail(s))

RECURSIVE ReplaceParameters(_)
\* step.replace(/([^\\]){(?![\d,])(.*?)}/g, '$1.*')
ReplaceParameters(s) ==
  IF s = <<>> THEN <<>>
  ELSE LET close == IF /\ Len(s) >= 2
                       /\ s[1] # "\\"
                       /\ s[2] = "{"
                       /\ ~(Len(s) >= 3 /\ s[3] \in Digit \cup {","})
                    THEN IndexFrom(s, 3, <<"}">>) ELSE 0 IN
    IF close > 0 THEN <<s[1], ".", "*">> \o ReplaceParameters(From(s, close + 1))
    ELSE <<Head(s)>> \o ReplaceParameters(Tail(s))

getRegTextForStep(step) ==
  LET s1 == ReplaceInterpolation(step)
      s2 == ReplaceAll(s1, Chars("{float}"), Chars("-?\\d*\\.?\\d+"))
      s3 == ReplaceAll(s2, Chars("{int}"), Chars("-?\\d+"))
      s4 == ReplaceAll(s3, Chars("{stringInDoubleQuotes}"), Chars("\"[^\"]+\""))
      s5 == ReplaceParameters(s4)
  IN escapeRegExp(s5)

RECURSIVE ReplaceQuotedGroups(_)
\* step.replace(/"\([^\)]*\)"/g, '""')
ReplaceQuotedGroups(s) ==
  IF s = <<>> THEN <<>>
  ELSE LET close == IF At(s, 1, <<"\"", "(">>) THEN IndexFrom(s, 3, <<")">>) ELSE 0 IN
    IF close > 0 /\ close < Len(s) /\ s[close + 1] = "\""
    THEN <<"\"", "\"">> \o ReplaceQuotedGroups(From(s, close + 2))
    ELSE <<Head(s)>> \o ReplaceQuotedGroups(Tail(s))

getTextForStep(step) ==
  LET s1 == SelectSeq(step, LAMBDA c : c # "\\")
      s2 == IF s1 # <<>> /\ Head(s1) = "^" THEN Tail(s1) ELSE s1
      s3 == IF s2 # <<>> /\ s2[Len(s2)] = "$" THEN SubSeq(s2, 1, Len(s2) - 1) ELSE s2
  IN ReplaceQuotedGroups(s3)

getDescForStep(step) ==
  LET brace == IndexFrom(step, 1, <<"{">>)
      s1 == IF brace > 0 THEN SubSeq(step, 1, brace - 1) ELSE step
      s2 == TrimRight(TrimLeft(s1))
      body == IndexFrom(s2, 1, <<"(", "/", "^">>)
  IN IF body > 0 THEN SubSeq(s2, 1, body - 1) \o From(s2, body + 3) ELSE s2

(* ------------------------------------------------------------------ *)
(* Invariant Expander                                                 *)
(* ------------------------------------------------------------------ *)

\* The position of the first character of s after i that is in stop, 0 when none.
NextOf(s, i, stop) ==
  IF \E e \in (i + 1)..Len(s) : s[e] \in stop
  THEN CHOOSE e \in (i + 1)..Len(s) :
         s[e] \in stop /\ \A f \in (i + 1)..(e - 1) : s[f] \notin stop
  ELSE 0

\* Does "(" x+ "|" y+ ")" match at position i, x and y being the characters
\* outside stop?  The group runs to the first character of stop, a ")".
GroupAt(s, i, stop) ==
  LET e == NextOf(s, i, stop) IN
  /\ s[i] = "("
  /\ e # 0
  /\ s[e] = ")"
  /\ \E k \in (i + 2)..(e - 2) : s[k] = "|"

\* ~step.search(/(\([^\)^\()]+\|[^\(^\)]+\))/)
HasInvariants(step) == \E i \in 1..Len(step) : GroupAt(step, i, {")", "^", "("})

\* step.match(/(\([^\)]+\|[^\)]+\))/)[1]: [start, end] of the leftmost match.
FirstGroup(step) ==
  LET i == CHOOSE i \in 1..Len(step) :
             GroupAt(step, i, {")"}) /\ \A h \in 1..(i - 1) : ~GroupAt(step, h, {")"})
  IN [start |-> i, end |-> NextOf(step, i, {")"})]

RECURSIVE Split(_, _)
\* str.split(sep) for a one-character separator.
Split(s, sep) ==
  LET k == IndexFrom(s, 1, <<sep>>) IN
  IF k = 0 THEN <<s>> ELSE <<SubSeq(s, 1, k - 1)>> \o Split(From(s, k + 1), sep)

RECURSIVE Substitute(_, _, _, _)
\* The replacement text of String.prototype.replace with a string pattern: $$,
\* $& and $' are special in it.
Substitute(rep, matched, before, after) ==
  IF rep = <<>> THEN <<>>
  ELSE IF At(rep, 1, <<"$", "$">>) THEN <<"$">> \o Substitute(From(rep, 3), matched, before, after)
  ELSE IF At(rep, 1, <<"$", "&">>) THEN matched \o Substitute(From(rep, 3), matched, before, after)
  ELSE IF At(rep, 1, <<"$", "'">>) THEN after \o Substitute(From(rep, 3), matched, before, after)
  ELSE <<Head(rep)>> \o Substitute(Tail(rep), matched, before, after)

RECURSIVE getStepTextInvariants(_)
getStepTextInvariants(step) ==
  IF HasInvariants(step)
  THEN LET m == FirstGroup(step)
           matchRes == SubSeq(step, m.start, m.end)
           before == SubSeq(step, 1, m.start - 1)
           after == From(step, m.end + 1)
           variants == Split(SubSeq(step, m.start + 1, m.end - 1), "|")
       IN Flatten([v \in 1..Len(variants) |->
            getStepTextInvariants(
              before \o Substitute(variants[v], matchRes, before, after) \o after)])
  ELSE <<step>>

(* ------------------------------------------------------------------ *)
(* The file system the handler reads (glob.sync, getFileContent)      *)
(* ------------------------------------------------------------------ *)

\* The step definition files, comments cleared, as their lines.
StepFiles ==
  [a |-> <<"Given(/^pick (a|b)$/, f)",
           "});",
           "When('add {int}', f)">>,
   b |-> <<"Then('pick a', f)",
           "When('pick', f)">>,
   d |-> <<"Given('ok', f)",
           "When('use C++', f)",
           "Then('late', f)">>]

\* The scenario files, as their lines.
FeatureFiles ==
  [x |-> <<"Feature: x",
           " Given pick a",
           " And add 42",
           " Then pick a",
           " But pick c">>,
   y |-> <<"Given ok",
           "And late">>]

\* The lines of a file as character sequences.
Lines(content) == [i \in 1..Len(content) |-> Chars(content[i])]

(* ------------------------------------------------------------------ *)
(* StepsHandler                                                       *)
(* ------------------------------------------------------------------ *)

VARIABLES
  elements,           \* Step[]: the registry, in order
  elementsHash,       \* the ids that map to true
  elemenstCountHash,  \* StepsCountHash: id -> number
  call,               \* the last call made on the handler and its arguments
  ret,                \* what that call returned, or that it threw
  accepted            \* how many completions were accepted so far

vars == <<elements, elementsHash, elemenstCountHash, call, ret, accepted>>

\* A counter that restarts at 1 on every use.
incrementToOne(hash, id) == (id :> 1) @@ hash

incrementElementCount(hash, id) ==
  IF id \in DOMAIN hash /\ hash[id] # 0
  THEN [hash EXCEPT ![id] = @ + 1]
  ELSE (id :> 1) @@ hash

getElementCount(hash, id) == IF id \in DOMAIN hash THEN hash[id] ELSE 0

\* Steps and the steps that follow them; a throw in either is a throw.
Joined(here, rest) ==
  IF ~here.ok \/ ~rest.ok THEN [ok |-> FALSE, steps |-> <<>>]
  ELSE [ok |-> TRUE, steps |-> here.steps \o rest.steps]

\* The Step of one variant: new RegExp throws on a text that is no pattern,
\* and nothing in the handler catches it.
StepOf(reg, text, desc, def, hash) ==
  [ok |-> Compile(reg).ok,
   steps |-> <<[id |-> StepId(text), reg |-> reg, text |-> text, desc |-> desc,
                def |-> def, count |-> getElementCount(hash, StepId(text))]>>]

RECURSIVE MapSteps(_, _, _, _, _)
\* stepsVariants.map(...) of getSteps: one Step per variant.
MapSteps(variants, n, desc, def, hash) ==
  IF n > Len(variants) THEN [ok |-> TRUE, steps |-> <<>>]
  ELSE Joined(StepOf(getRegTextForStep(variants[n]), getTextForStep(variants[n]),
                     desc, def, hash),
              MapSteps(variants, n + 1, desc, def, hash))

getSteps(fullStepLine, stepPart, def, hash) ==
  MapSteps(getStepTextInvariants(stepPart), 1, getDescForStep(fullStepLine), def, hash)

\* The steps one line declares, match being getMatch of the line.
LineSteps(filePath, line, lineIndex, match, hash) ==
  IF match.ok
  THEN getSteps(line, match.stepPart,
                [uri |-> filePath, line |-> lineIndex,
                 character |-> Len(match.beforeGherkin)], hash)
  ELSE [ok |-> TRUE, steps |-> <<>>]

RECURSIVE FileStepsFrom(_, _, _, _)
\* The reduce of getFileSteps over the lines from lineIndex (0-based) on.
FileStepsFrom(filePath, lines, lineIndex, hash) ==
  IF lineIndex >= Len(lines) THEN [ok |-> TRUE, steps |-> <<>>]
  ELSE Joined(LineSteps(filePath, lines[lineIndex + 1], lineIndex,
                        getMatch(lines[lineIndex + 1]), hash),
              FileStepsFrom(filePath, lines, lineIndex + 1, hash))

\* Steps that keep the count they had.
WithStaleCounts(els, hash) == els

\* this.elements.forEach(el => el.count = this.getElementCount(el.id))
WithCounts(els, hash) ==
  [i \in 1..Len(els) |-> [els[i] EXCEPT !.count = getElementCount(hash, els[i].id)]]

\* What each file declares, read once: the files do not change, and the count
\* map enters a Step only as its count.
ParsedFiles ==
  [f \in DOMAIN StepFiles |-> FileStepsFrom(f, Lines(StepFiles[f]), 0, << >>)]

\* The steps fs with their counts from the map.
Counted(fs, hash) == [ok |-> fs.ok, steps |-> WithCounts(fs.steps, hash)]

getFileSteps(filePath, hash) == Counted(ParsedFiles[filePath], hash)

\* A reduce that keeps every step, registered before or not.
KeepAll(steps, acc, seen) ==
  [steps |-> acc \o steps, seen |-> seen \cup {steps[i].id : i \in 1..Len(steps)}]

RECURSIVE KeepNew(_, _, _)
\* The inner reduce of populate: the steps whose id is not yet in the hash.
KeepNew(steps, acc, seen) ==
  IF steps = <<>> THEN [steps |-> acc, seen |-> seen]
  ELSE IF Head(steps).id \in seen THEN KeepNew(Tail(steps), acc, seen)
       ELSE KeepNew(Tail(steps), Append(acc, Head(steps)), seen \cup {Head(steps).id})

RECURSIVE PopulateFrom(_, _, _, _, _)
\* The outer reduce of populate over the files from the n-th on: ok is FALSE
\* when getFileSteps threw, with the ids registered until then.
PopulateFrom(files, n, acc, seen, hash) ==
  IF n > Len(files) THEN [ok |-> TRUE, elements |-> acc, elementsHash |-> seen]
  ELSE LET Reduce(fs) ==
             IF ~fs.ok THEN [ok |-> FALSE, elements |-> acc, elementsHash |-> seen]
             ELSE LET kept == KeepNew(fs.steps, <<>>, seen) IN
                  PopulateFrom(files, n + 1, acc \o kept.steps, kept.seen, hash)
       IN Reduce(getFileSteps(files[n], hash))

\* populate(root, stepsPathes), files being what the globs resolve to, in order.
Populated(files, hash) == PopulateFrom(files, 1, <<>>, {}, hash)

\* The scenario lines of the files, and the argument texts of those that match
\* the keyword pattern.
ScenarioLines ==
  [f \in DOMAIN FeatureFiles |-> [i \in 1..Len(FeatureFiles[f]) |-> Chars(FeatureFiles[f][i])]]
ScenarioTexts ==
  UNION {{GherkinMatch(ScenarioLines[f][i]).text : i \in 1..Len(FeatureFiles[f])} :
         f \in DOMAIN FeatureFiles}

\* The elements of a sequence.
Range(q) == {q[i] : i \in 1..Len(q)}

\* The answers of reg.test(text) for the patterns and scenario texts of the
\* files, worked out once.
KnownTests ==
  [p \in {s.reg : s \in UNION {Range(ParsedFiles[f].steps) : f \in DOMAIN StepFiles}}
          \X ScenarioTexts
     |-> RegTest(Compile(p[1]).ast, p[2])]

\* s.reg.test(text), the pattern compiled from its source, known being the
\* answers worked out before.
TestWith(known, reg, text) ==
  IF <<reg, text>> \in DOMAIN known THEN known[<<reg, text>>]
  ELSE RegTest(Compile(reg).ast, text)

Test(reg, text) == TestWith(KnownTests, reg, text)

RECURSIVE FindFrom(_, _, _)
\* The index of the first Step from the i-th on whose pattern text matches.
FindFrom(els, text, i) ==
  IF i > Len(els) THEN 0
  ELSE IF Test(els[i].reg, text) THEN i
  ELSE FindFrom(els, text, i + 1)

\* The index of the Step this.elements.find(s => s.reg.test(text)) returns, 0
\* for undefined.
getStepByText(els, text) == FindFrom(els, text, 1)

\* The Step a scenario line uses, match being the keyword match of the line.
StepOfLine(els, match) == IF match.ok THEN getStepByText(els, match.text) ELSE 0

\* The count map after a line that uses the Step of index step.
CountedLine(els, hash, step) ==
  IF step # 0 THEN incrementElementCount(hash, els[step].id) ELSE hash

RECURSIVE CountLines(_, _, _)
\* The forEach of setElementsHash over the lines of all files, in order.
CountLines(els, lines, hash) ==
  IF lines = <<>> THEN hash
  ELSE CountLines(els, Tail(lines),
                  CountedLine(els, hash, StepOfLine(els, GherkinMatch(Head(lines)))))

\* All lines of the files, in order.
AllLines(files) == Flatten([n \in 1..Len(files) |-> ScenarioLines[files[n]]])

\* The count map setElementsHash builds from the scenario files.
UsageHash(els, files) == CountLines(els, AllLines(files), << >>)

(* ------------------------------------------------------------------ *)
(* Inputs                                                             *)
(* ------------------------------------------------------------------ *)

\* The most files a glob resolves to.
MaxFiles == 2
\* The most completions accepted on top of a usage scan.
MaxAccepted == 1

\* The sequences over S of length 0..n that hold no element twice: what a glob
\* may resolve to, in any order.
SeqsUpTo(S, n) ==
  {q \in UNION {[1..k -> S] : k \in 0..n} : \A i, j \in 1..Len(q) : i # j => q[i] # q[j]}

\* What the step globs / the feature glob may resolve to.
StepGlobs == SeqsUpTo(DOMAIN StepFiles, MaxFiles)
FeatureGlobs == SeqsUpTo(DOMAIN FeatureFiles, MaxFiles)

Void == [kind |-> "void", value |-> <<>>]
Thrown == [kind |-> "throw", value |-> <<>>]

(* ------------------------------------------------------------------ *)
(* The registry: constructor, populate, setElementsHash, resolve      *)
(* ------------------------------------------------------------------ *)

\* new StepsHandler(root, settings): populate, then the usage scan when
\* syncfeatures is set.  A constructor that throws leaves no handler.
Init ==
  \E files \in StepGlobs, sync \in FeatureGlobs \cup {<<"off">>} :
    \E r \in {Populated(files, << >>)} :
      \E hash \in {IF sync = <<"off">> THEN << >> ELSE UsageHash(r.elements, sync)} :
        /\ r.ok
        /\ elementsHash = r.elementsHash
        /\ elemenstCountHash = hash
        /\ elements = IF sync = <<"off">> THEN r.elements ELSE WithCounts(r.elements, hash)
        /\ call = [op |-> "constructor", arg |-> <<files, sync>>]
        /\ ret = Void
        /\ accepted = 0

populate(files) ==
  \E r \in {Populated(files, elemenstCountHash)} :
    /\ elementsHash' = r.elementsHash
    /\ elements' = IF r.ok THEN r.elements ELSE elements
    /\ UNCHANGED <<elemenstCountHash, accepted>>
    /\ call' = [op |-> "populate", arg |-> files]
    /\ ret' = IF r.ok THEN Void ELSE Thrown

setElementsHash(files) ==
  \E hash \in {UsageHash(elements, files)} :
    /\ elemenstCountHash' = hash
    /\ elements' = WithCounts(elements, hash)
    /\ UNCHANGED <<elementsHash, accepted>>
    /\ call' = [op |-> "setElementsHash", arg |-> files]
    /\ ret' = Void

\* getCompletionResolve(item), item being a candidate made from the i-th Step.
getCompletionResolve(i) ==
  LET item == [data |-> elements[i].id] IN
  /\ accepted < MaxAccepted
  /\ accepted' = accepted + 1
  /\ elemenstCountHash' = incrementElementCount(elemenstCountHash, item.data)
  /\ UNCHANGED <<elements, elementsHash>>
  /\ call' = [op |-> "getCompletionResolve", arg |-> item]
  /\ ret' = [kind |-> "value", value |-> item]

Next ==
  \/ \E files \in StepGlobs : populate(files)
  \/ \E files \in FeatureGlobs : setElementsHash(files)
  \/ \E i \in 1..Len(elements) : getCompletionResolve(i)

Spec == Init /\ [][Next]_vars

(* ------------------------------------------------------------------ *)
(* Query Engine: validate, getCompletion                              *)
(* ------------------------------------------------------------------ *)

NullValue == [kind |-> "null", value |-> <<>>]

\* validate(line, lineNum): null, or the warning Diagnostic.
Validated(els, line, lineNum) ==
  LET trimmed == TrimRight(line)
      lineForError == TrimLeft(trimmed)
      match == GherkinMatch(trimmed)
  IN IF ~match.ok THEN NullValue
     ELSE IF getStepByText(els, match.text) # 0 THEN NullValue
     ELSE [kind |-> "value",
           value |-> [start |-> [line |-> lineNum, character |-> Len(match.before)],
                      end |-> [line |-> lineNum, character |-> Len(trimmed)],
                      message |-> lineForError]]

\* The keyword of a keyword match, "" without a match.
KeywordOf(match) == IF match.ok THEN match.keyword ELSE ""

\* A scan that stops at the line right above, whatever it holds.
LastStartingNoSkip(text, i) ==
  IF i < 0 \/ ~GherkinMatch(text[i + 1]).ok THEN "" ELSE GherkinMatch(text[i + 1]).keyword

RECURSIVE LastStartingFrom(_, _)
\* The loop of findLastStartingStepType from index i (0-based) down to 0.
LastStartingFrom(text, i) ==
  IF i < 0 THEN ""
  ELSE IF KeywordOf(GherkinMatch(text[i + 1])) \notin {"", "And"}
       THEN KeywordOf(GherkinMatch(text[i + 1]))
       ELSE LastStartingFrom(text, i - 1)

findLastStartingStepType(position, text) == LastStartingFrom(text, position.line - 1)

\* gherkinPart of getCompletion once the "And" case is resolved.
EffectiveKeyword(line, position, text) ==
  IF KeywordOf(GherkinMatch(line)) = "And" THEN findLastStartingStepType(position, text)
  ELSE KeywordOf(GherkinMatch(line))

RECURSIVE CollapseQuoted(_)
\* stepPart.replace(/"[^"]*"/g, '""')
CollapseQuoted(s) ==
  IF s = <<>> THEN <<>>
  ELSE LET close == IF Head(s) = "\"" THEN IndexFrom(s, 2, <<"\"">>) ELSE 0 IN
    IF close > 0 THEN <<"\"", "\"">> \o CollapseQuoted(From(s, close + 1))
    ELSE <<Head(s)>> \o CollapseQuoted(Tail(s))

RECURSIVE DropLastWord(_)
\* stepPart.replace(/[^\s]+$/, '')
DropLastWord(s) ==
  IF s # <<>> /\ s[Len(s)] \notin SpaceChar THEN DropLastWord(SubSeq(s, 1, Len(s) - 1)) ELSE s

\* stepPart before it is normalised: match[4], or the line without a match.
TextOrLine(line, match) == IF match.ok THEN match.text ELSE line

\* The source of stepPartRe.
StepPartOf(line) == DropLastWord(CollapseQuoted(TextOrLine(line, GherkinMatch(line))))

RECURSIVE InsertFields(_, _)
\* getCompletionInsertText: the n-th {_name_} becomes ${n:<name>}.
InsertFields(step, n) ==
  IF step = <<>> THEN <<>>
  ELSE LET close == IF At(step, 1, <<"{", "_">>) THEN IndexFrom(step, 4, <<"_", "}">>) ELSE 0 IN
    IF close > 0
    THEN <<"$", "{">> \o Decimal(n, 1) \o <<":", "<">> \o SubSeq(step, 3, close - 1)
           \o <<">", "}">> \o InsertFields(From(step, close + 2), n + 1)
    ELSE <<Head(step)>> \o InsertFields(Tail(step), n)

getCompletionInsertText(step) == InsertFields(step, 1)

\* Does the Step pass the filter of getCompletion?
Survives(step, re, gherkinPart) ==
  /\ RegTest(re, step.text)
  /\ gherkinPart = "" \/ IndexFrom(step.desc, 1, Chars(gherkinPart)) # 0

\* step.text.replace(stepPartRe, ''), m being the match of stepPartRe in text.
WithoutMatch(text, m) == SubSeq(text, 1, m.start) \o From(text, m.end + 1)

\* The CompletionItem of a Step with its label.
Item(step, label) ==
  [label |-> label,
   data |-> step.id,
   sortText |-> getSortPrefix(step.count, 5) \o <<"_">> \o label,
   insertText |-> getCompletionInsertText(label)]

\* The CompletionItem of a Step that passed the filter.
Candidate(step, re) == Item(step, WithoutMatch(step.text, Exec(re, step.text)))

RECURSIVE Candidates(_, _, _, _)
\* this.elements.filter(...).map(...) from the i-th Step on.
Candidates(els, i, re, gherkinPart) ==
  IF i > Len(els) THEN <<>>
  ELSE (IF Survives(els[i], re, gherkinPart) THEN <<Candidate(els[i], re)>> ELSE <<>>)
         \o Candidates(els, i + 1, re, gherkinPart)

\* A list that is returned even when it is empty.
ListAlways(res) == [kind |-> "value", value |-> res]

\* res.length ? res : null
ListOrNull(res) == IF res = <<>> THEN NullValue ELSE [kind |-> "value", value |-> res]

\* The answer for the compiled stepPartRe: new RegExp(stepPart) throws a
\* SyntaxError on a text that is no pattern.
Answer(els, stepPartRe, gherkinPart) ==
  IF ~stepPartRe.ok THEN Thrown
  ELSE ListOrNull(Candidates(els, 1, stepPartRe.ast, gherkinPart))

\* getCompletion(line, position, text): the items, null for none, or the throw.
Completed(els, line, position, text) ==
  Answer(els, Compile(StepPartOf(line)), EffectiveKeyword(line, position, text))

\* The most lines of a document.
MaxDocLines == 3

\* The documents completion is asked in, and the lines it is asked on.
DocLines == {"When a", "And b", "# c"}
Documents == UNION {[1..k -> {Chars(l) : l \in DocLines}] : k \in 0..MaxDocLines}
CompletionLines ==
  {Chars(l) : l \in {"pi", "Given pick x", "And ", "When add (1 x", "Then zzz y"}}

\* The handlers the queries are asked of: a populate of a.js and b.js, with
\* or without the usage scan.
InitQuery ==
  /\ Init
  /\ call.arg[1] \in {<<"a">>, <<"a", "b">>, <<"b", "a">>}
  /\ call.arg[2] \in {<<"off">>, <<"x">>}

\* validate on a Step's own text after a keyword, or on another line.
validate(line, lineNum) ==
  /\ call' = [op |-> "validate", arg |-> [line |-> line, lineNum |-> lineNum]]
  /\ ret' = Validated(elements, line, lineNum)
  /\ UNCHANGED <<elements, elementsHash, elemenstCountHash, accepted>>

getCompletion(line, position, text) ==
  /\ call' = [op |-> "getCompletion",
              arg |-> [line |-> line, position |-> position, text |-> text]]
  /\ ret' = Completed(elements, line, position, text)
  /\ UNCHANGED <<elements, elementsHash, elemenstCountHash, accepted>>

\* The lines validate is asked about: each Step's text after each keyword, and
\* lines of the scenario files.
OwnLines(els) ==
  {Chars(GherkinWords[w]) \o <<" ">> \o els[i].text : w \in 1..5, i \in 1..Len(els)}

\* A query changes nothing of the handler, so each behaviour asks one query of
\* the handler as constructed.
AtRest == call.op = "constructor"

NextQuery ==
  \/ /\ AtRest
     /\ \E line \in OwnLines(elements) \cup {Chars(" But pick c  "), Chars("Feature: x"),
                                            Chars("  Then late")} :
          validate(line, 0)
  \/ /\ AtRest
     /\ \E line \in CompletionLines, text \in Documents :
          \E n \in 0..Len(text) :
            getCompletion(line, [line |-> n, character |-> Len(line)], text)

SpecQuery == InitQuery /\ [][NextQuery]_vars

(* ------------------------------------------------------------------ *)
(* Properties of the registry                                         *)
(* ------------------------------------------------------------------ *)

\* What identifies a Step apart from its count.
Key(step) == [id |-> step.id, text |-> step.text, def |-> step.def]
Keys(steps) == [i \in 1..Len(steps) |-> Key(steps[i])]

\* Every Step the files declare, in file order, line order, variant order.
Extracted(files) ==
  Flatten([n \in 1..Len(files) |-> getFileSteps(files[n], << >>).steps])

RECURSIVE FirstOfEachText(_, _)
\* steps[k..] without those whose text an earlier Step of steps has.
FirstOfEachText(steps, k) ==
  IF k > Len(steps) THEN <<>>
  ELSE (IF \E h \in 1..(k - 1) : steps[h].text = steps[k].text THEN <<>> ELSE <<steps[k]>>)
         \o FirstOfEachText(steps, k + 1)

\* The files populate was last called with, when it has completed.
PopulateDone == call.op = "populate" /\ ret.kind = "void"

\* C1: after populate completes no two Steps of the registry have the same
\* id, and the registry is the extracted Steps in extraction order, each
\* canonical text kept where it comes first.
C1_FirstOccurrenceWins ==
  PopulateDone =>
    /\ \A i, j \in 1..Len(elements) : i # j => elements[i].id # elements[j].id
    /\ Keys(elements) = Keys(FirstOfEachText(Extracted(call.arg), 1))

\* C1 witness: a completed populate of two files that dropped a duplicate.
C1_Witness ==
  /\ PopulateDone
  /\ Len(call.arg) = 2
  /\ Len(elements) < Len(Extracted(call.arg))
  /\ Len(elements) >= 3

\* C2: getCompletionResolve of a candidate of Step S leaves the count of S
\* one higher than before and the count of every other Step as it was.
C2_ResolveIncrementsCount ==
  [][call'.op = "getCompletionResolve" =>
       /\ Len(elements') = Len(elements)
       /\ \A i \in 1..Len(elements) :
            elements'[i].count =
              elements[i].count + (IF elements[i].id = call'.arg.data THEN 1 ELSE 0)]_vars

\* Does the line declare a Step whose pattern does not compile?
Malformed(line) ==
  LET match == getMatch(line) IN
  match.ok /\ ~getSteps(line, match.stepPart, <<>>, << >>).ok

\* The Steps of the files, first of each text, the malformed lines left out.
RegistryWithoutMalformed(files) ==
  LET stepsOf(f) ==
        LET lines == Lines(StepFiles[f]) IN
        Flatten([n \in 1..Len(lines) |->
          LET match == getMatch(lines[n]) IN
          IF match.ok /\ ~Malformed(lines[n])
          THEN getSteps(lines[n], match.stepPart,
                        [uri |-> f, line |-> n - 1, character |-> Len(match.beforeGherkin)],
                        << >>).steps
          ELSE <<>>])
  IN FirstOfEachText(Flatten([n \in 1..Len(files) |-> stepsOf(files[n])]), 1)

\* C3: a fragment that does not compile is dropped alone: populate completes
\* and registers the Steps of all other lines as if the line were absent.
C3_MalformedDroppedAlone ==
  call.op = "populate" =>
    /\ ret.kind = "void"
    /\ Keys(elements) = Keys(RegistryWithoutMalformed(call.arg))

\* The scenario lines of the files that resolve to the i-th Step.
LinesOf(els, files, i) ==
  LET lines == AllLines(files) IN
  {k \in 1..Len(lines) :
     /\ GherkinMatch(lines[k]).ok
     /\ getStepByText(els, GherkinMatch(lines[k]).text) = i}

\* C4: after setElementsHash the count of each Step is the number of scenario
\* lines that match the keyword pattern and resolve to it, whatever the counts
\* were before.
C4_UsageIsFullRescan ==
  call.op = "setElementsHash" =>
    \A i \in 1..Len(elements) :
      elements[i].count = Cardinality(LinesOf(elements, call.arg, i))

\* C4 witness: a scan after an accepted completion that counts one Step twice
\* and another not at all.
C4_Witness ==
  /\ call.op = "setElementsHash"
  /\ accepted > 0
  /\ \E i, j \in 1..Len(elements) : elements[i].count >= 2 /\ elements[j].count = 0

\* count and map agree on every registered Step.
CountsInSync ==
  \A i \in 1..Len(elements) :
    elements[i].count = getElementCount(elemenstCountHash, elements[i].id)

\* C10: populate leaves the count map alone; a Step's count is never above
\* the map's value for its id nor below 0, and equals it right after a
\* completed populate and after a setElementsHash.
C10_CountsFollowMap ==
  /\ [][call'.op = "populate" => elemenstCountHash' = elemenstCountHash]_vars
  /\ [](\A i \in 1..Len(elements) :
          /\ elements[i].count >= 0
          /\ elements[i].count <= getElementCount(elemenstCountHash, elements[i].id))
  /\ [](PopulateDone \/ call.op = "setElementsHash" => CountsInSync)

\* C10 witness: a populate that registered a Step with the count an accepted
\* completion had given its id.
C10_Witness ==
  /\ PopulateDone
  /\ accepted > 0
  /\ \E i \in 1..Len(elements) :
       /\ elements[i].count > Cardinality(LinesOf(elements, <<"x", "y">>, i))
       /\ elements[i].count = elemenstCountHash[elements[i].id]

(* ------------------------------------------------------------------ *)
(* Properties of the queries                                          *)
(* ------------------------------------------------------------------ *)

\* The last call was a completion request.
Asked == call.op = "getCompletion"

\* C5: getCompletion returns a candidate list or none for every line, cursor
\* position and document; it never ends in an error.
C5_CompletionNeverAborts == Asked => ret.kind \in {"value", "null"}

\* The indices of the Steps that pass the filter of the call.
Survivors ==
  {i \in 1..Len(elements) :
     Survives(elements[i], Compile(StepPartOf(call.arg.line)).ast,
              EffectiveKeyword(call.arg.line, call.arg.position, call.arg.text))}

\* The count of the registered Step with that id.
CountOf(id) == elements[CHOOSE i \in 1..Len(elements) : elements[i].id = id].count

RECURSIVE StrLess(_, _)
\* Is a before b in the order of their character codes?
StrLess(a, b) ==
  IF b = <<>> THEN FALSE
  ELSE IF a = <<>> THEN TRUE
  ELSE IF Head(a) = Head(b) THEN StrLess(Tail(a), Tail(b))
  ELSE Code(Head(a)) < Code(Head(b))

\* C6 as stated: none exactly when no Step survives, and otherwise the list
\* itself is sorted, higher count first and equal counts by label.
C6_ListIsSorted ==
  Asked /\ ret.kind # "throw" =>
    /\ ret.kind = "null" <=> Survivors = {}
    /\ ret.kind = "value" =>
         \A i, j \in 1..Len(ret.value) : i < j =>
           \/ CountOf(ret.value[i].data) > CountOf(ret.value[j].data)
           \/ /\ CountOf(ret.value[i].data) = CountOf(ret.value[j].data)
              /\ ~StrLess(ret.value[j].label, ret.value[i].label)

\* C6 amended: none exactly when no Step survives; otherwise the list holds
\* one candidate for each surviving Step, in registry order, and it is the
\* sort keys of the candidates that rank them: a higher count gives the lower
\* key, and with equal counts the lower label does.
C6_KeysRankTheList ==
  Asked /\ ret.kind # "throw" =>
    /\ ret.kind = "null" <=> Survivors = {}
    /\ ret.kind = "value" =>
         /\ Len(ret.value) = Cardinality(Survivors)
         /\ \A i \in 1..Len(ret.value) :
              ret.value[i].data =
                elements[CHOOSE k \in Survivors :
                           Cardinality({h \in Survivors : h < k}) = i - 1].id
         /\ \A i, j \in 1..Len(ret.value) :
              \/ CountOf(ret.value[i].data) > CountOf(ret.value[j].data)
              \/ /\ CountOf(ret.value[i].data) = CountOf(ret.value[j].data)
                 /\ StrLess(ret.value[i].label, ret.value[j].label)
              => StrLess(ret.value[i].sortText, ret.value[j].sortText)

\* C6 witness: a list of three or more candidates that is not in the order of
\* its counts.
C6_Witness ==
  /\ Asked
  /\ ret.kind = "value"
  /\ Len(ret.value) >= 3
  /\ \E i, j \in 1..Len(ret.value) :
       i < j /\ CountOf(ret.value[i].data) < CountOf(ret.value[j].data)

\* The keyword of the last of the first n lines of doc that is a step line
\* with a keyword other than "And"; "" when there is none.
NearestKeyword(doc, n) ==
  LET starts == {i \in 1..n : GherkinMatch(doc[i]).ok /\ GherkinMatch(doc[i]).keyword # "And"}
  IN IF starts = {} THEN ""
     ELSE GherkinMatch(doc[CHOOSE i \in starts : \A h \in starts : h <= i]).keyword

\* The candidates of the Steps whose text the typed part matches and, with a
\* keyword, whose desc holds the keyword.
Filtered(line, keyword) ==
  ListOrNull(Candidates(elements, 1, Compile(StepPartOf(line)).ast, keyword))

\* C7: on an "And" line the effective keyword is that of the nearest line
\* above the cursor line that is a step line with another keyword, "" (no
\* keyword filter) when there is none; on a Given, When, Then or But line it is
\* the line's own keyword, whatever the document.
C7_AndTakesKeywordAbove ==
  Asked =>
    LET own == KeywordOf(GherkinMatch(call.arg.line))
        expected == IF own = "And"
                    THEN NearestKeyword(call.arg.text, call.arg.position.line)
                    ELSE own
    IN /\ EffectiveKeyword(call.arg.line, call.arg.position, call.arg.text) = expected
       /\ ret.kind # "throw" => ret = Filtered(call.arg.line, expected)

\* C7 witness: an "And" line under a non-step line, an "And" line and a When
\* line gets the Steps of When.
C7_Witness ==
  /\ Asked
  /\ GherkinMatch(call.arg.line).keyword = "And"
  /\ call.arg.position.line = 3
  /\ GherkinMatch(call.arg.text[1]).keyword = "When"
  /\ GherkinMatch(call.arg.text[2]).keyword = "And"
  /\ ~GherkinMatch(call.arg.text[3]).ok
  /\ ret.kind = "value"
  /\ ret # Filtered(call.arg.line, "")

\* C8: validate of a keyword, a space and the display text of a registered
\* Step returns no diagnostic.
C8_OwnTextValidates ==
  call.op = "validate" /\ call.arg.line \in OwnLines(elements) => ret = NullValue

(* ------------------------------------------------------------------ *)
(* The Invariant Expander on its own                                  *)
(* ------------------------------------------------------------------ *)

\* The most pieces of a fragment.
MaxPieces == 3

\* What fragments are made of: plain text and alternation groups, one with an
\* empty alternative and one with a "^".
Pieces == {"go ", "(a|b)", "(c|d|e)", "(f|)", "(^g|h)"}

\* The fragments, as their pieces.
Fragments == UNION {[1..k -> {Chars(x) : x \in Pieces}] : k \in 1..MaxPieces}

\* A handler over no files.
InitExpand == Init /\ call.arg = << <<>>, <<"off">> >>

\* getStepTextInvariants(step), step being the pieces put together.
expand(pieces) ==
  /\ call' = [op |-> "getStepTextInvariants", arg |-> pieces]
  /\ ret' = [kind |-> "value", value |-> getStepTextInvariants(Flatten(pieces))]
  /\ UNCHANGED <<elements, elementsHash, elemenstCountHash, accepted>>

NextExpand == AtRest /\ \E pieces \in Fragments : expand(pieces)

SpecExpand == InitExpand /\ [][NextExpand]_vars

\* The alternatives of a piece: those of a group, or the plain text itself.
Alternatives(piece) ==
  IF Head(piece) = "(" THEN Split(SubSeq(piece, 2, Len(piece) - 1), "|") ELSE <<piece>>

RECURSIVE CrossProduct(_)
\* One fragment for each combination of alternatives, those of the leftmost
\* group varying slowest.
CrossProduct(pieces) ==
  IF pieces = <<>> THEN << <<>> >>
  ELSE LET alts == Alternatives(Head(pieces))
           rest == CrossProduct(Tail(pieces))
       IN Flatten([a \in 1..Len(alts) |-> [r \in 1..Len(rest) |-> alts[a] \o rest[r]]])

\* C9: the Invariant Expander returns one fragment for each combination of
\* the alternatives of the groups of the fragment, the leftmost group varying
\* slowest, and no returned fragment still holds a group; without a group it
\* returns the fragment alone.
C9_ExpandsToCrossProduct ==
  call.op = "getStepTextInvariants" =>
    /\ ret.value = CrossProduct(call.arg)
    /\ \A i \in 1..Len(ret.value) : \A k \in 1..Len(ret.value[i]) : ret.value[i][k] # "|"

====
